---- MODULE Spec2Model ----
(***************************************************************************)
(* Order processing pipeline of the Kairah Studio backend:                 *)
(*   src/main.py                 the FastAPI endpoints generate, status,   *)
(*                               mark_completed and process_order_job      *)
(*   src/worker/process_loop.py  the worker poll_loop                      *)
(* The Firestore collection "orders" is the shared store; every            *)
(* document write (set / update) is one atomic step.  A run of             *)
(* process_order_job is a job; it is cut into steps at its store writes    *)
(* and at its awaited provider and storage calls.                          *)
(*                                                                         *)
(* process_loop.py calls process_order_job without importing it (line 4    *)
(* only has a comment in place of the imports); poll_loop is modelled      *)
(* with the import in place, as lines 4 and 13 describe.                   *)
(***************************************************************************)
EXTENDS Integers, Sequences, FiniteSets, TLC

\* ---------------------------------------------------------------- bounds
MaxOrders == 1          \* order documents created under Spec

\* ------------------------------------------------------ program constants
MAX_SECONDS == 180
POLL_ATTEMPTS == 60
QUERY_LIMIT == 3
ADMIN_SECRET == "change-me"

\* Optional[x]: None is the empty tuple, a present value x is <<x>>
None == <<>>
Some(x) == <<x>>

OrderIds == 1..(MaxOrders + 1)            \* WideSpec creates one more order
WORKER == 0                               \* the job slot of poll_loop
JobIds == {WORKER} \cup OrderIds          \* slot o: background task of order o

\* the request bodies submitted to POST /generate
Req(u, pl, d) ==
    [userId |-> u,
     email |-> IF u = "u1" THEN "u1@example.com" ELSE "u2@example.com",
     plan |-> pl, prompt |-> "a cat", duration |-> d]
Requests ==
    {Req("u1", "entry", Some(6)), Req("u1", "entry", Some(10)),
     Req("u2", "gold", None), Req("u2", "diamond", Some(181))}
SecretInputs == {Some(ADMIN_SECRET), Some("guess"), None}

VARIABLES
    orders,       \* Firestore collection "orders": doc id -> document
    jobs,         \* runs of process_order_job, one slot per task
    poller,       \* poll_loop: the documents of the current query still to do
    started,      \* per order: how many times process_order_job was entered
    resp,         \* the last HTTP response, where a specification records it
    poll          \* the poll loop of one call_rundiffusion_generate (PollSpec)

vars == <<orders, jobs, poller, started, resp, poll>>

Exists(o) == o \in DOMAIN orders

\* res: the local carried to the next store write (error text or signed URL)
IdleJob == [pc |-> "idle", order |-> 0, res |-> None]

Init ==
    /\ orders = <<>>
    /\ jobs = [j \in JobIds |-> IdleJob]
    /\ poller = {}
    /\ started = [o \in OrderIds |-> 0]
    /\ resp = [op |-> "off", code |-> 0, body |-> None]
    /\ poll = [i |-> 0, last |-> "none", result |-> "idle"]

\* ---------------------------------------------------------------- helpers
\* create_order_doc: a new document with a fresh id, status "pending"
create_order_doc(payload) ==
    [payload EXCEPT !.createdAt = "SERVER_TIMESTAMP", !.status = "pending"]

\* set() in place of update(): the fields not given are lost
update_order_Replacing(o, updates) ==
    [orders EXCEPT ![o] =
        [f \in DOMAIN orders[o] |->
            IF f \in DOMAIN updates THEN updates[f]
            ELSE IF f \in {"duration", "resultUrl", "message"} THEN None
            ELSE ""]]

\* update_order: Firestore update() merges the given fields into the document
update_order(o, updates) ==
    [orders EXCEPT ![o] =
        [f \in DOMAIN orders[o] |->
            IF f \in DOMAIN updates THEN updates[f] ELSE orders[o][f]]]

\* a call either returns a dict {"ok": .., "error": ..} or raises str(e)
Ret(ok, err) == [raised |-> FALSE, ok |-> ok, error |-> err]
Raise(msg) == [raised |-> TRUE, ok |-> FALSE, error |-> msg]

\* what the RunDiffusion endpoint answers during one call
RunDiffusionReplyCases ==
    [post : {"2xx", "err"},                       \* the POST: 2xx or an error
     data : {"mp4_base64", "download_url", "job_id", "empty"},
     get : {"2xx", "err"},                        \* the download GET
     readyAt : {1, POLL_ATTEMPTS, POLL_ATTEMPTS + 1},  \* first poll that succeeds
     pollErrAt : {0, 2}]                          \* poll answered non-2xx (0: none)

\* the poll loop of call_rundiffusion_generate, from attempt i on
RECURSIVE poll_result(_, _)
poll_result(r, i) ==
    IF i > POLL_ATTEMPTS THEN Ret(FALSE, "timeout")
    ELSE IF r.pollErrAt = i THEN Raise("http error")
    ELSE IF i >= r.readyAt
         THEN IF r.get = "2xx" THEN Ret(TRUE, "") ELSE Raise("http error")
    ELSE poll_result(r, i + 1)

\* line 78: RUNDIFFUSION_API_KEY is read from the environment of the process
\* (the API server and the worker each have their own); key is TRUE iff set
call_rundiffusion_generate(key, r) ==
    IF ~key THEN Raise("Rundiffusion API key not set on server")
    ELSE IF r.post = "err" THEN Raise("http error")
    ELSE IF r.data = "mp4_base64" THEN Ret(TRUE, "")
    ELSE IF r.data = "download_url"
         THEN IF r.get = "2xx" THEN Ret(TRUE, "") ELSE Raise("http error")
    ELSE IF r.data = "job_id" THEN poll_result(r, 1)
    ELSE Ret(FALSE, "no result")

\* every result a call of call_rundiffusion_generate can have
RunDiffusionResults ==
    {call_rundiffusion_generate(key, r) :
        key \in BOOLEAN, r \in RunDiffusionReplyCases}

\* what the HuggingFace endpoint answers: a status code, or the POST raises
HFReplies == {"200", "503", "err"}

call_hf_generate(token, r) ==
    IF ~token THEN Ret(FALSE, "no hf token")
    ELSE IF r = "err" THEN Raise("http error")
    ELSE IF r # "200" THEN Ret(FALSE, "hf 503")
    ELSE Ret(TRUE, "")

\* the bucket either stores the blob and signs a URL, or the call raises
StorageReplies == {"ok", "err"}

\* the blob path does not depend on the order
upload_blob_and_get_url_FixedKey(o, r) ==
    IF r = "ok" THEN Ret(TRUE, Some(0)) ELSE Raise("upload failed")

upload_blob_and_get_url(o, r) ==
    IF r = "ok" THEN Ret(TRUE, Some(o)) ELSE Raise("upload failed")

\* ------------------------------------------------------ process_order_job
SetJob(j, pc, o, err) ==
    jobs' = [jobs EXCEPT ![j] = [pc |-> pc, order |-> o, res |-> err]]

\* the run without the MAX_SECONDS test of line 155
process_order_job_start_NoLimit(j) ==
    /\ jobs[j].pc = "scheduled"
    /\ LET o == jobs[j].order
           d == orders[o].duration
       IN  /\ orders' = update_order(o, [status |-> "processing"])
           /\ started' = [started EXCEPT ![o] = @ + 1]
           /\ IF d = None
              THEN SetJob(j, "fail", o, Some("int() argument must be a number"))
              ELSE SetJob(j, "primary", o, None)
    /\ UNCHANGED <<poller, resp, poll>>

\* lines 152-155: update_order(order_id, {"status": "processing"}), then
\* int(duration) and the MAX_SECONDS test, which are local
process_order_job_start(j) ==
    /\ jobs[j].pc = "scheduled"
    /\ LET o == jobs[j].order
           d == orders[o].duration
       IN  /\ orders' = update_order(o, [status |-> "processing"])
           /\ started' = [started EXCEPT ![o] = @ + 1]
           /\ IF d = None
              THEN SetJob(j, "fail", o, Some("int() argument must be a number"))
              ELSE IF d[1] > MAX_SECONDS
              THEN SetJob(j, "fail", o, Some("duration exceeds limit"))
              ELSE SetJob(j, "primary", o, None)
    /\ UNCHANGED <<poller, resp, poll>>

\* writes of process_order_job that end it
\* line 173: update_order(order_id, {"status": "completed", "resultUrl": url})
WriteCompleted(j, url) ==
    /\ orders' = update_order(jobs[j].order,
                    [status |-> "completed", resultUrl |-> url])
    /\ SetJob(j, "done", 0, None)

\* the failure write that records the text and leaves the status as it was
WriteFailed_StatusKept(j, msg) ==
    /\ orders' = update_order(jobs[j].order, [message |-> msg])
    /\ SetJob(j, "done", 0, None)

\* lines 156, 168, 175: update_order(order_id, {"status": "failed", "message": ..})
WriteFailed(j, msg) ==
    /\ orders' = update_order(jobs[j].order,
                    [status |-> "failed", message |-> msg])
    /\ SetJob(j, "done", 0, None)

\* lines 156 and 175 after the local failure of lines 153-155
process_order_job_invalid(j) ==
    /\ jobs[j].pc = "fail"
    /\ WriteFailed(j, jobs[j].res)
    /\ UNCHANGED <<poller, started, resp, poll>>

\* lines 160-162 and 165-169: the RunDiffusion call returns; a raise is
\* caught at line 165 and written at line 168
process_order_job_primary(j) ==
    /\ jobs[j].pc = "primary"
    /\ \E res \in RunDiffusionResults :
         LET o == jobs[j].order
         IN  IF res.raised THEN WriteFailed(j, Some(res.error))
             ELSE IF res.ok THEN SetJob(j, "upload", o, None) /\ UNCHANGED orders
             ELSE SetJob(j, "fallback", o, None) /\ UNCHANGED orders
    /\ UNCHANGED <<poller, started, resp, poll>>

\* lines 164-169: the HuggingFace call returns; failure is written at line 168
process_order_job_fallback(j) ==
    /\ jobs[j].pc = "fallback"
    /\ \E token \in BOOLEAN, r \in HFReplies :
         LET res == call_hf_generate(token, r)
             o == jobs[j].order
         IN  IF res.ok THEN SetJob(j, "upload", o, None) /\ UNCHANGED orders
             ELSE WriteFailed(j, Some(res.error))
    /\ UNCHANGED <<poller, started, resp, poll>>

\* lines 171-175: upload_blob_and_get_url returns the URL, written at line
\* 173, or raises, written at line 175
process_order_job_upload(j) ==
    /\ jobs[j].pc = "upload"
    /\ \E r \in StorageReplies :
         LET res == upload_blob_and_get_url(jobs[j].order, r)
         IN  IF res.raised THEN WriteFailed(j, Some(res.error))
             ELSE WriteCompleted(j, res.error)
    /\ UNCHANGED <<poller, started, resp, poll>>

process_order_job(j) ==
    \/ process_order_job_start(j)
    \/ process_order_job_primary(j)
    \/ process_order_job_fallback(j)
    \/ process_order_job_upload(j)
    \/ process_order_job_invalid(j)

\* --------------------------------------------------------------- endpoints
\* the HTTP status code each endpoint answers with
\* lines 181-182 and 196
generate_response(req) ==
    IF req.duration # None /\ req.duration[1] # 0
       /\ req.duration[1] > MAX_SECONDS
    THEN 400 ELSE 200

\* lines 201-204
status_response(order_id) == IF Exists(order_id) THEN 200 ELSE 404

\* the secret is compared only when the header is present
mark_completed_response_HeaderOptional(order_id, x_admin_secret) ==
    IF x_admin_secret # None /\ x_admin_secret # Some(ADMIN_SECRET) THEN 403
    ELSE IF ~Exists(order_id) THEN 500
    ELSE 200

\* lines 209-212; update() of a missing document raises NotFound, which the
\* endpoint does not catch, so the framework answers 500
mark_completed_response(order_id, x_admin_secret) ==
    IF x_admin_secret # Some(ADMIN_SECRET) THEN 403
    ELSE IF ~Exists(order_id) THEN 500
    ELSE 200

\* the response is kept in resp by the specifications that start with
\* response recording on (ServerInit); the others leave resp as it is
NotRecorded == [op |-> "off", code |-> 0, body |-> None]
Respond(op, code, body) ==
    resp' = IF resp = NotRecorded THEN resp
            ELSE [op |-> op, code |-> code, body |-> body]

\* the failure text is read from a key the documents do not have
status_body_NoMessage(order_id) ==
    IF Exists(order_id)
    THEN Some([orderId |-> order_id, status |-> orders[order_id].status,
               resultUrl |-> orders[order_id].resultUrl,
               message |-> None])
    ELSE None

\* line 204: the StatusResponse built from the stored document
status_body(order_id) ==
    IF Exists(order_id)
    THEN Some([orderId |-> order_id, status |-> orders[order_id].status,
               resultUrl |-> orders[order_id].resultUrl,
               message |-> orders[order_id].message])
    ELSE None

\* POST /generate (lines 178-196); the new document gets a fresh id
generate(req) ==
    /\ Respond("generate", generate_response(req), None)
    /\ IF generate_response(req) = 400
       THEN UNCHANGED <<orders, jobs>>
       ELSE LET o == Cardinality(DOMAIN orders) + 1
                payload == [userId |-> req.userId, email |-> req.email,
                            plan |-> req.plan, prompt |-> req.prompt,
                            duration |-> req.duration,
                            status |-> "pending", createdAt |-> "",
                            resultUrl |-> None, message |-> None]
            IN  /\ orders' = (o :> create_order_doc(payload)) @@ orders
                /\ SetJob(o, "scheduled", o, None)
    /\ UNCHANGED <<poller, started, poll>>

\* GET /status/{order_id} (lines 198-204): reads one document
status(order_id) ==
    /\ Respond("status", status_response(order_id), status_body(order_id))
    /\ UNCHANGED <<orders, jobs, poller, started, poll>>

\* POST /admin/mark-completed/{order_id} (lines 207-212)
mark_completed(order_id, x_admin_secret) ==
    /\ Respond("mark_completed",
               mark_completed_response(order_id, x_admin_secret), None)
    /\ IF mark_completed_response(order_id, x_admin_secret) = 200
       THEN orders' = update_order(order_id, [status |-> "completed"])
       ELSE UNCHANGED orders
    /\ UNCHANGED <<jobs, poller, started, poll>>

\* ------------------------------------------------------------- poll_loop
Pending == {o \in DOMAIN orders : orders[o].status = "pending"}

Min(a, b) == IF a < b THEN a ELSE b

\* line 9: where("status", "==", "pending").limit(3), run when the previous
\* batch is finished (line 15)
poll_loop_query ==
    /\ poller = {}
    /\ jobs[WORKER].pc \in {"idle", "done"}
    /\ \E docs \in SUBSET Pending :
         /\ Cardinality(docs) = Min(QUERY_LIMIT, Cardinality(Pending))
         /\ docs # {}
         /\ poller' = docs
    /\ UNCHANGED <<orders, jobs, started, resp, poll>>

\* lines 10-14: the next document of the batch is handed to process_order_job
poll_loop_next ==
    /\ jobs[WORKER].pc \in {"idle", "done"}
    /\ \E d \in poller :
         /\ poller' = poller \ {d}
         /\ SetJob(WORKER, "scheduled", d, None)
    /\ UNCHANGED <<orders, started, resp, poll>>

\* requests arrive while fewer than cap orders exist
Submit(cap) ==
    /\ Cardinality(DOMAIN orders) < cap
    /\ \E req \in Requests : generate(req)

Next ==
    \/ Submit(MaxOrders)
    \/ \E o \in OrderIds : status(o)
    \/ \E o \in OrderIds, s \in SecretInputs : mark_completed(o, s)
    \/ \E j \in JobIds : process_order_job(j)
    \/ poll_loop_query
    \/ poll_loop_next

Spec == Init /\ [][Next]_vars

\* jobs run to their end: background tasks and asyncio.run do not stop while
\* provider, storage and store calls return
FairSpec == Spec /\ WF_vars(\E j \in JobIds : process_order_job(j))

\* the same system with one more order
WideNext ==
    \/ Submit(MaxOrders + 1)
    \/ \E o \in OrderIds : status(o)
    \/ \E o \in OrderIds, s \in SecretInputs : mark_completed(o, s)
    \/ \E j \in JobIds : process_order_job(j)
    \/ poll_loop_query
    \/ poll_loop_next

WideSpec == Init /\ [][WideNext]_vars

\* the API server of main.py alone (uvicorn without process_loop.py), its
\* responses recorded
ServerInit ==
    /\ orders = <<>>
    /\ jobs = [j \in JobIds |-> IdleJob]
    /\ poller = {}
    /\ started = [o \in OrderIds |-> 0]
    /\ resp = [op |-> "none", code |-> 0, body |-> None]
    /\ poll = [i |-> 0, last |-> "none", result |-> "idle"]

ServerNext ==
    \/ Submit(MaxOrders)
    \/ \E o \in OrderIds : status(o)
    \/ \E o \in OrderIds, s \in SecretInputs : mark_completed(o, s)
    \/ \E j \in OrderIds : process_order_job(j)

ServerSpec == ServerInit /\ [][ServerNext]_vars

\* ---------------------------------------------- the poll loop, step by step
\* lines 113-127 of call_rundiffusion_generate with every poll a step of its
\* own; poll_result above is the same loop as a function of the replies
PollReplies == {"running", "failed", "succeeded_no_url", "succeeded", "err"}
DownloadReplies == {"2xx", "err"}

\* lines 113-114: the POST answered with a job_id and no download_url
poll_begin ==
    /\ poll.result = "idle"
    /\ poll' = [i |-> 0, last |-> "none", result |-> "polling"]
    /\ UNCHANGED <<orders, jobs, poller, started, resp>>

\* lines 115-126: one round of the for loop
poll_once_Unbounded ==
    /\ poll.result = "polling"
    /\ poll.i < POLL_ATTEMPTS + 2
    /\ \E reply \in PollReplies, dl \in DownloadReplies :
         poll' = [i |-> poll.i + 1, last |-> reply,
                  result |-> IF reply = "err" THEN "raised"
                             ELSE IF reply = "succeeded"
                             THEN IF dl = "2xx" THEN "ok" ELSE "raised"
                             ELSE "polling"]
    /\ UNCHANGED <<orders, jobs, poller, started, resp>>

poll_once ==
    /\ poll.result = "polling"
    /\ poll.i < POLL_ATTEMPTS
    /\ \E reply \in PollReplies, dl \in DownloadReplies :
         poll' = [i |-> poll.i + 1, last |-> reply,
                  result |-> IF reply = "err" THEN "raised"
                             ELSE IF reply = "succeeded"
                             THEN IF dl = "2xx" THEN "ok" ELSE "raised"
                             ELSE "polling"]
    /\ UNCHANGED <<orders, jobs, poller, started, resp>>

\* line 127: the loop is exhausted
poll_exhausted ==
    /\ poll.result = "polling"
    /\ poll.i >= POLL_ATTEMPTS
    /\ poll' = [poll EXCEPT !.result = "timeout"]
    /\ UNCHANGED <<orders, jobs, poller, started, resp>>

PollNext == poll_begin \/ poll_once \/ poll_exhausted

\* the awaited requests of the loop return
PollSpec == Init /\ [][PollNext]_vars /\ WF_vars(PollNext)

\* ------------------------------------------------ the worker process alone
\* process_loop.py over documents already in the store: MAX_SECONDS is read
\* from the environment of each process (line 33), so a document accepted by
\* a server with a larger MAX_VIDEO_SECONDS can exceed the worker's limit
StoredDurations == {Some(6), Some(MAX_SECONDS), Some(MAX_SECONDS + 1)}
StoredOrder(d) ==
    create_order_doc([userId |-> "u1", email |-> "u1@example.com",
                      plan |-> "entry", prompt |-> "a cat", duration |-> d,
                      status |-> "pending", createdAt |-> "",
                      resultUrl |-> None, message |-> None])

WorkerInit ==
    /\ orders \in [OrderIds -> {StoredOrder(d) : d \in StoredDurations}]
    /\ jobs = [j \in JobIds |-> IdleJob]
    /\ poller = {}
    /\ started = [o \in OrderIds |-> 0]
    /\ resp = [op |-> "off", code |-> 0, body |-> None]
    /\ poll = [i |-> 0, last |-> "none", result |-> "idle"]

WorkerNext ==
    \/ \E o \in OrderIds, s \in SecretInputs : mark_completed(o, s)
    \/ \E j \in JobIds : process_order_job(j)
    \/ poll_loop_query
    \/ poll_loop_next

WorkerSpec == WorkerInit /\ [][WorkerNext]_vars

\* the system while nobody calls the administrative endpoint
NoAdminNext ==
    \/ Submit(MaxOrders)
    \/ \E o \in OrderIds : status(o)
    \/ \E j \in JobIds : process_order_job(j)
    \/ poll_loop_query
    \/ poll_loop_next

NoAdminSpec == Init /\ [][NoAdminNext]_vars

\* ------------------------------------------------------------------ claims
Terminal == {"completed", "failed"}
StatusOf(o) == IF Exists(o) THEN orders[o].status ELSE "absent"
Running(j) == jobs[j].pc \in {"fail", "primary", "fallback", "upload"}

JobsOn(o) == {j \in JobIds : Running(j) /\ jobs[j].order = o}
\* job j makes the store write that ends its run
Finishes(j) == Running(j) /\ jobs'[j].pc = "done"

\* C1: with no administrative override, an order starts pending and its
\* status only moves pending -> processing -> completed or
\* pending -> processing -> failed
C1_StatusSequence ==
    [][\A o \in DOMAIN orders' :
          \/ o \notin DOMAIN orders /\ orders'[o].status = "pending"
          \/ o \in DOMAIN orders /\ orders'[o].status = orders[o].status
          \/ o \in DOMAIN orders /\ <<orders[o].status, orders'[o].status>> \in
                {<<"pending", "processing">>, <<"processing", "completed">>,
                 <<"processing", "failed">>}]_vars

\* C2: process_order_job is entered at most once per order and no two runs
\* of it on the same order are in progress together
C2_OneExecution ==
    \A o \in OrderIds : started[o] <= 1 /\ Cardinality(JobsOn(o)) <= 1

\* C3: resultUrl is set if and only if status is completed
C3_ResultIffCompleted ==
    \A o \in DOMAIN orders :
        (orders[o].resultUrl # None) <=> (orders[o].status = "completed")

\* C4: message is set if and only if status is failed
C4_MessageIffFailed ==
    \A o \in DOMAIN orders :
        (orders[o].message # None) <=> (orders[o].status = "failed")

\* C5: resultUrl and message are never both set, and each is written at
\* most once: a run that ends writes one of them and finds both unset
C5_ExclusiveWrittenOnce ==
    [][/\ \A o \in DOMAIN orders' :
            orders'[o].resultUrl = None \/ orders'[o].message = None
       /\ \A j \in JobIds :
            Finishes(j) =>
              /\ orders[jobs[j].order].resultUrl = None
              /\ orders[jobs[j].order].message = None]_vars

\* C6: a submission whose duration is above the maximum of its plan (entry 6,
\* pro 60, diamond 180, lifetime 180) is rejected and creates no order
C6_DurationWithinPlan ==
    [][LET maxDuration == [entry |-> 6, pro |-> 60, diamond |-> 180,
                           lifetime |-> 180]
       IN  \A req \in Requests :
              ( /\ req.plan \in DOMAIN maxDuration
                /\ req.duration # None
                /\ req.duration[1] > maxDuration[req.plan]
                /\ generate(req) )
              => generate_response(req) = 400 /\ orders' = orders]_vars

\* C7: an entry-plan submission by a user who already has an order of the
\* day is rejected and creates no order (every run is within one UTC day)
C7_EntryDailyQuota ==
    [][\A req \in Requests :
          ( /\ req.plan = "entry"
            /\ \E o \in DOMAIN orders : orders[o].userId = req.userId
            /\ generate(req) )
          => generate_response(req) # 200 /\ orders' = orders]_vars

\* C8: a submission with a plan outside entry, pro, diamond, lifetime is
\* rejected, creates no order and schedules no execution
C8_InvalidPlanRejected ==
    [][\A req \in Requests :
          ( /\ req.plan \notin {"entry", "pro", "diamond", "lifetime"}
            /\ generate(req) )
          => /\ generate_response(req) # 200
             /\ orders' = orders
             /\ jobs' = jobs]_vars

\* C9: whenever the primary provider call ends without success, the
\* secondary provider is attempted next
C9_FallbackOnAnyFailure ==
    [][\A j \in JobIds :
          (jobs[j].pc = "primary" /\ jobs'[j].pc # "primary")
          => jobs'[j].pc \in {"upload", "fallback"}]_vars

\* C10: every order whose execution has started reaches completed or failed
\* again and again (it never stays in processing), and an execution whose
\* two providers both failed leaves the order failed with a reason
C10_ExecutionTerminates ==
    /\ \A o \in OrderIds :
         (started[o] > 0) ~> (StatusOf(o) \in Terminal)
    /\ [][\A j \in JobIds :
            (jobs[j].pc = "fallback" /\ jobs'[j].pc = "done")
            => LET o == jobs[j].order
               IN  orders'[o].status = "failed" /\ orders'[o].message # None]_vars

C10_Witness ==
    \E o \in DOMAIN orders :
        /\ started[o] > 0
        /\ orders[o].status = "failed"
        /\ orders[o].message = Some("hf 503")

\* C11: once an order is completed or failed, only the administrative
\* override changes its status
C11_TerminalIsFinal ==
    [][\A o \in DOMAIN orders :
          (orders[o].status \in Terminal /\ orders'[o].status # orders[o].status)
          => \E s \in SecretInputs : mark_completed(o, s)]_vars

\* C15: the run of an entry-plan order passes a watermark stage before the
\* artifact is uploaded
C15_WatermarkBeforeUpload ==
    [][\A j \in JobIds :
          ( /\ jobs'[j].pc = "upload"
            /\ jobs[j].pc # "upload"
            /\ orders[jobs'[j].order].plan = "entry" )
          => jobs[j].pc = "watermark"]_vars

\* C16: when the upload raises, the order is left failed with a message and
\* without a result URL
C16_UploadFailureRecorded ==
    [][\A j \in JobIds :
          (process_order_job_upload(j) /\ orders'[jobs[j].order].status # "completed")
          => LET o == jobs[j].order
             IN  /\ orders'[o].status = "failed"
                 /\ orders'[o].message # None
                 /\ orders'[o].resultUrl = None]_vars

\* C17: no step deletes an order or changes its userId, email, plan, prompt
\* or duration
RequestFields == {"userId", "email", "plan", "prompt", "duration"}

C17_RequestFieldsKept ==
    [][\A o \in DOMAIN orders :
          /\ o \in DOMAIN orders'
          /\ \A f \in RequestFields : orders'[o][f] = orders[o][f]]_vars

C17_Witness ==
    \E o \in DOMAIN orders :
        /\ started[o] = 2
        /\ orders[o].status = "completed"
        /\ orders[o].resultUrl = None
        /\ orders[o].message # None
        /\ [f \in RequestFields |-> orders[o][f]] \in Requests

\* C18: the stages of one run follow each other in the order of the code:
\* the processing write comes first, the upload only after a provider
\* succeeded, and a run writes completed only from the upload stage, with the
\* URL of the blob named after its order
StageSteps ==
    {<<"idle", "scheduled">>, <<"done", "scheduled">>,
     <<"scheduled", "primary">>, <<"scheduled", "fail">>, <<"fail", "done">>,
     <<"primary", "fallback">>, <<"primary", "upload">>, <<"primary", "done">>,
     <<"fallback", "upload">>, <<"fallback", "done">>, <<"upload", "done">>}

C18_StagesInSequence ==
    [][\A j \in JobIds :
          /\ jobs'[j].pc # jobs[j].pc
             => <<jobs[j].pc, jobs'[j].pc>> \in StageSteps
          /\ (jobs[j].pc = "scheduled" /\ jobs'[j].pc # "scheduled")
             => orders'[jobs[j].order].status = "processing"
          /\ (Finishes(j) /\ orders'[jobs[j].order].status = "completed")
             => /\ jobs[j].pc = "upload"
                /\ orders'[jobs[j].order].resultUrl = Some(jobs[j].order)]_vars

C18_Witness ==
    \E o \in DOMAIN orders :
        /\ started[o] > 0
        /\ orders[o].status = "completed"
        /\ orders[o].resultUrl = Some(o)

\* C12: mark_completed with a secret other than ADMIN_SECRET answers 403 and
\* changes no order, whatever the order id
C12_WrongSecretRejected ==
    [][/\ \A o \in OrderIds, s \in SecretInputs :
            (s # Some(ADMIN_SECRET) /\ mark_completed(o, s))
            => orders' = orders /\ resp'.code = 403
       /\ (resp' # resp /\ resp'.code = 403) => orders' = orders]_vars

C12_Witness ==
    /\ resp.op = "mark_completed"
    /\ resp.code = 403
    /\ \E o \in DOMAIN orders : orders[o].status = "processing"

\* C13: mark_completed with the right secret for an unknown order id answers
\* 404 and creates or changes no order
C13_UnknownOrderNotFound ==
    [][\A o \in OrderIds :
          (~Exists(o) /\ mark_completed(o, Some(ADMIN_SECRET)))
          => orders' = orders /\ resp'.code = 404]_vars

\* C14: the status query changes no order; it answers 200 with the stored
\* status, resultUrl and message of a known id and 404 for an unknown id
C14_StatusReadOnly ==
    [][\A o \in OrderIds :
          status(o)
          => /\ orders' = orders
             /\ jobs' = jobs
             /\ IF o \in DOMAIN orders'
                THEN /\ resp'.code = 200
                     /\ resp'.body = Some([orderId |-> o,
                                           status |-> orders'[o].status,
                                           resultUrl |-> orders'[o].resultUrl,
                                           message |-> orders'[o].message])
                ELSE resp'.code = 404 /\ resp'.body = None]_vars

C14_Witness ==
    /\ resp.op = "status"
    /\ resp.code = 200
    /\ \E o \in DOMAIN orders :
         /\ resp.body = Some([orderId |-> o, status |-> "failed",
                              resultUrl |-> None,
                              message |-> orders[o].message])
         /\ orders[o].status = "failed"
         /\ orders[o].message # None

PollEnded == poll.result \in {"ok", "raised", "timeout"}

\* C19 as claimed: at most POLL_ATTEMPTS polls, the call ends, and it ends
\* with the timeout failure whenever no poll reported success
C19_TimeoutUnlessSuccess ==
    /\ poll.i <= POLL_ATTEMPTS
    /\ (PollEnded /\ poll.last # "succeeded") => poll.result = "timeout"

\* C19 amended: at most POLL_ATTEMPTS polls are made and the call ends; when
\* every poll answers 2xx and none reports success with a download URL it
\* ends with the timeout failure after POLL_ATTEMPTS polls, and a poll that
\* answers non-2xx ends it at once with the exception
C19_BoundedPolling ==
    /\ [](poll.i <= POLL_ATTEMPTS)
    /\ []((PollEnded /\ poll.last \notin {"succeeded", "err"})
            => (poll.result = "timeout" /\ poll.i = POLL_ATTEMPTS))
    /\ [](poll.last = "err" => poll.result = "raised")
    /\ [](poll.result = "timeout" => poll.last \notin {"succeeded", "err"})
    /\ (poll.result = "polling") ~> PollEnded

C19_Witness ==
    /\ poll.result = "timeout"
    /\ poll.i = POLL_ATTEMPTS
    /\ poll.last = "failed"

OverLimit(o) ==
    /\ Exists(o)
    /\ orders[o].duration # None
    /\ orders[o].duration[1] > MAX_SECONDS

\* C20: within one execution call_hf_generate is invoked at most once and
\* only after call_rundiffusion_generate was invoked and finished without
\* success; an execution on an order whose stored duration exceeds
\* MAX_SECONDS invokes no provider and writes processing, then failed
C20_ProviderOrder ==
    [][\A j \in JobIds :
         LET o == jobs[j].order
         IN  /\ (jobs'[j].pc = "primary" /\ jobs[j].pc # "primary")
                  => jobs[j].pc = "scheduled"
             /\ (jobs'[j].pc = "fallback" /\ jobs[j].pc # "fallback")
                  => (jobs[j].pc = "primary" /\ jobs'[j].order = o)
             /\ (jobs[j].pc = "fallback" /\ jobs'[j] # jobs[j])
                  => jobs'[j].pc \in {"upload", "done"}
             /\ (jobs'[j].pc \in {"primary", "fallback", "upload"})
                  => ~OverLimit(jobs'[j].order)
             /\ (jobs[j].pc = "scheduled" /\ jobs'[j] # jobs[j] /\ OverLimit(o))
                  => /\ jobs'[j].pc = "fail"
                     /\ orders'[o].status = "processing"
             /\ (jobs[j].pc = "fail" /\ jobs'[j] # jobs[j] /\ OverLimit(o))
                  => /\ jobs'[j].pc = "done"
                     /\ orders'[o].status = "failed"
                     /\ orders'[o].message = Some("duration exceeds limit")]_vars

C20_Witness ==
    /\ \E o \in OrderIds :
         /\ OverLimit(o)
         /\ started[o] = 1
         /\ orders[o].status = "failed"
         /\ orders[o].message = Some("duration exceeds limit")
    /\ \E j \in JobIds : jobs[j].pc = "fallback"

====
